---------------------------- MODULE Spec2Model ----------------------------
(***************************************************************************)
(* A model of the qt_atoms QuickTime/MP4 atom parser (src/src/atoms.rs,    *)
(* src/src/parse_state.rs).                                                *)
(*                                                                         *)
(* The state is a read-only byte source, the cursors of the two handles    *)
(* the code opens on it (the fs::File the unit tests open directly and the *)
(* fs::File owned by Parser), the last header returned by AtomHeader::new, *)
(* the activation records of the container decodes in progress, the        *)
(* outcome of the last finished call, and the ParseResults of the last     *)
(* Parser::parse.                                                          *)
(*                                                                         *)
(* Bytes are the naturals 0..255.  Sizes and offsets are u64 in the code;  *)
(* every byte source of the model keeps them below 2^31, so no sum of the  *)
(* model wraps.                                                            *)
(***************************************************************************)
EXTENDS Naturals, Sequences, FiniteSets

VARIABLES file, parser, pos, active, hdr, stack, reads, outcome, parsed

vars == <<file, parser, pos, active, hdr, stack, reads, outcome, parsed>>

-----------------------------------------------------------------------------
(* Bounds of the model *)

\* The byte sources are the concatenations of at most MaxChunks chunks.
MaxChunks == 3

\* A container decode is followed for at most MaxChildren child headers.
MaxChildren == 5

-----------------------------------------------------------------------------
(* Program constants *)

MIN_FILE_READ == 8

\* The 4-byte type codes, as the bytes of their ASCII spelling.
T_moov == <<109, 111, 111, 118>>
T_ftyp == <<102, 116, 121, 112>>
T_free == <<102, 114, 101, 101>>
T_wide == <<119, 105, 100, 101>>
T_mdat == <<109, 100, 97, 116>>
T_root == <<114, 111, 111, 116>>

-----------------------------------------------------------------------------
(* Bytes and integers *)

Min(a, b) == IF a <= b THEN a ELSE b

\* {integer}::from_be_bytes: the big-endian value of a byte sequence.
RECURSIVE from_be_bytes(_)
from_be_bytes(bs) ==
  IF bs = <<>> THEN 0
  ELSE from_be_bytes(SubSeq(bs, 1, Len(bs) - 1)) * 256 + bs[Len(bs)]

\* The number of bytes between offset p and the end of the source f.
Available(f, p) == IF p >= Len(f) THEN 0 ELSE Len(f) - p

\* Read::read on a regular file: at most n bytes from offset p, fewer when
\* the source ends first, none at or past its end.
FileRead(f, p, n) == SubSeq(f, p + 1, p + Min(n, Available(f, p)))

\* A read into a buffer overwrites its first Len(got) bytes and leaves the
\* rest as it was.
ReadInto(buf, got) == got \o SubSeq(buf, Len(got) + 1, Len(buf))

\* The length of the well-formed UTF-8 sequence that starts at bs[i], 0 when
\* none does.
Utf8Len(bs, i) ==
  LET b == bs[i]
      c(k, lo, hi) == i + k <= Len(bs) /\ bs[i + k] >= lo /\ bs[i + k] <= hi
  IN  CASE b <= 127 -> 1
        [] b >= 194 /\ b <= 223 /\ c(1, 128, 191) -> 2
        [] b = 224 /\ c(1, 160, 191) /\ c(2, 128, 191) -> 3
        [] b >= 225 /\ b <= 236 /\ c(1, 128, 191) /\ c(2, 128, 191) -> 3
        [] b = 237 /\ c(1, 128, 159) /\ c(2, 128, 191) -> 3
        [] b >= 238 /\ b <= 239 /\ c(1, 128, 191) /\ c(2, 128, 191) -> 3
        [] b = 240 /\ c(1, 144, 191) /\ c(2, 128, 191) /\ c(3, 128, 191) -> 4
        [] b >= 241 /\ b <= 243 /\ c(1, 128, 191) /\ c(2, 128, 191)
             /\ c(3, 128, 191) -> 4
        [] b = 244 /\ c(1, 128, 143) /\ c(2, 128, 191) /\ c(3, 128, 191) -> 4
        [] OTHER -> 0

\* std::str::from_utf8(..).is_ok() on the bytes from bs[i] on.
RECURSIVE Utf8From(_, _)
Utf8From(bs, i) ==
  IF i > Len(bs) THEN TRUE
  ELSE LET n == Utf8Len(bs, i) IN n > 0 /\ Utf8From(bs, i + n)

\* AtomHeader::atom_type unwraps std::str::from_utf8 of the type code: it
\* returns when the four bytes are UTF-8 and panics when they are not.
atom_type_ok(h) == Utf8From(h.atom_type, 1)

-----------------------------------------------------------------------------
(* Values *)

NoHeader == [atom_size |-> 0, atom_type |-> <<>>, atom_location |-> 0,
             header_size |-> 0]

NoError == [kind |-> "none", atom_type |-> <<>>, atom_size |-> 0, read |-> 0]

\* A node of the tree: family is the variant of AtomNodes (Container or Atom),
\* kind the variant of ContainerAtoms or of Atoms.
NoNode == [family |-> "none", kind |-> "none", header |-> NoHeader,
           children |-> <<>>, major_brand |-> 0, minor_version |-> 0,
           compatible_brands |-> <<>>]

NoOutcome == [op |-> "none", status |-> "none", node |-> NoNode,
              buf |-> <<>>, err |-> NoError, text |-> <<>>]

\* No Parser::parse has finished yet.
NoParseResults == [calls |-> 0, status |-> "none", node |-> NoNode,
                   err |-> NoError]

\* AtomNodes::Atom(Atoms::<variant>(..)) of a leaf that keeps only its header.
Leaf(variant, h) ==
  [NoNode EXCEPT !.family = "Atom", !.kind = variant, !.header = h]

-----------------------------------------------------------------------------
(* The header codec *)

\* AtomHeader::new with the location taken as the cursor after the read
\* (the subtraction of the bytes consumed left out).
AtomHeader_new_cursor_as_location(f, p) ==
  LET got1    == FileRead(f, p, 8)
      buf1    == ReadInto(<<0, 0, 0, 0, 0, 0, 0, 0>>, got1)
      size32  == from_be_bytes(SubSeq(buf1, 1, 4))
      type    == SubSeq(buf1, 5, 8)
      got2    == IF size32 = 1 THEN FileRead(f, p + Len(got1), 8) ELSE <<>>
      buf2    == ReadInto(buf1, got2)
      readout == Len(got1) + Len(got2)
      size    == IF size32 = 1 THEN from_be_bytes(buf2) ELSE size32
      cursor  == p + readout
  IN  [hdr |-> [atom_size |-> size, atom_type |-> type,
                atom_location |-> cursor, header_size |-> readout],
       pos |-> cursor]

\* AtomHeader::new on source f with the cursor at p: the header and the
\* cursor afterwards.  A short read leaves the buffer's tail as it was.
AtomHeader_new(f, p) ==
  LET got1    == FileRead(f, p, 8)
      buf1    == ReadInto(<<0, 0, 0, 0, 0, 0, 0, 0>>, got1)
      size32  == from_be_bytes(SubSeq(buf1, 1, 4))
      type    == SubSeq(buf1, 5, 8)
      got2    == IF size32 = 1 THEN FileRead(f, p + Len(got1), 8) ELSE <<>>
      buf2    == ReadInto(buf1, got2)
      readout == Len(got1) + Len(got2)
      size    == IF size32 = 1 THEN from_be_bytes(buf2) ELSE size32
      cursor  == p + readout
  IN  [hdr |-> [atom_size |-> size, atom_type |-> type,
                atom_location |-> cursor - readout, header_size |-> readout],
       pos |-> cursor]

\* ParseError::FailedToReadOutAtom(type, declared size, bytes read).
FailedToReadOutAtom(h, read) ==
  [kind |-> "FailedToReadOutAtom", atom_type |-> h.atom_type,
   atom_size |-> h.atom_size, read |-> read]

\* ParseError::AtomParseFailed(type).
AtomParseFailed(h) ==
  [NoError EXCEPT !.kind = "AtomParseFailed", !.atom_type = h.atom_type]

NotValidMediaFileSize == [NoError EXCEPT !.kind = "NotValidMediaFileSize"]

\* What a call on the byte source comes to: a value, an error value or a
\* panic, and the cursor it leaves.
Returned(node, buf, p) ==
  [status |-> "ok", node |-> node, buf |-> buf, err |-> NoError, pos |-> p]
Failed(err, p) ==
  [status |-> "err", node |-> NoNode, buf |-> <<>>, err |-> err, pos |-> p]
Panicked(p) ==
  [status |-> "panic", node |-> NoNode, buf |-> <<>>, err |-> NoError, pos |-> p]

\* AtomHeader::read_atom: seek to the atom's start and read atom_size bytes
\* in one read.  Building the error calls atom_type(), which panics on a type
\* code that is not UTF-8.
AtomHeader_read_atom(f, h) ==
  LET got  == FileRead(f, h.atom_location, h.atom_size)
      read == Len(got)
      p    == h.atom_location + read
  IN  IF read = h.atom_size THEN Returned(NoNode, got, p)
      ELSE IF atom_type_ok(h) THEN Failed(FailedToReadOutAtom(h, read), p)
      ELSE Panicked(p)

-----------------------------------------------------------------------------
(* Leaf decoders *)

\* FtypAtom::new with the payload taken to start after 8 bytes whatever the
\* header's size.
FtypAtom_new_fixed_header(f, h) ==
  LET r == AtomHeader_read_atom(f, h)
  IN  IF r.status # "ok" THEN r
      ELSE IF Len(r.buf) >= h.atom_size
      THEN LET buf   == r.buf
               start == 8
           IN  IF start + 8 > Len(buf) THEN Panicked(r.pos)
               ELSE LET bytes_left == h.atom_size - 8 - 8
                        num_u32    == bytes_left \div 4
                        brand(i)   ==
                          from_be_bytes(SubSeq(buf, start + 8 + (i - 1) * 4 + 1,
                                               start + 8 + i * 4))
                    IN  Returned(
                          [family |-> "Atom", kind |-> "Ftyp", header |-> h,
                           children |-> <<>>,
                           major_brand |->
                             from_be_bytes(SubSeq(buf, start + 1, start + 4)),
                           minor_version |->
                             from_be_bytes(SubSeq(buf, start + 5, start + 8)),
                           compatible_brands |-> [i \in 1..num_u32 |-> brand(i)]],
                          <<>>, r.pos)
      ELSE Failed(AtomParseFailed(h), r.pos)

\* FtypAtom::new.  Indexing buf[a..b] panics when b > buf.len().
FtypAtom_new(f, h) ==
  LET r == AtomHeader_read_atom(f, h)
  IN  IF r.status # "ok" THEN r
      ELSE IF Len(r.buf) >= h.atom_size
      THEN LET buf   == r.buf
               start == h.header_size
           IN  IF start + 8 > Len(buf) THEN Panicked(r.pos)
               ELSE LET bytes_left == h.atom_size - h.header_size - 8
                        num_u32    == bytes_left \div 4
                        brand(i)   ==
                          from_be_bytes(SubSeq(buf, start + 8 + (i - 1) * 4 + 1,
                                               start + 8 + i * 4))
                    IN  Returned(
                          [family |-> "Atom", kind |-> "Ftyp", header |-> h,
                           children |-> <<>>,
                           major_brand |->
                             from_be_bytes(SubSeq(buf, start + 1, start + 4)),
                           minor_version |->
                             from_be_bytes(SubSeq(buf, start + 5, start + 8)),
                           compatible_brands |-> [i \in 1..num_u32 |-> brand(i)]],
                          <<>>, r.pos)
      ELSE Failed(AtomParseFailed(h), r.pos)

\* Atoms::new on a header whose type code atom_type() returns, with the
\* cursor at p.
Atoms_new(f, h, p) ==
  CASE h.atom_type = T_ftyp -> FtypAtom_new(f, h)
    [] h.atom_type = T_free -> Returned(Leaf("Free", h), <<>>, p)
    [] h.atom_type = T_wide -> Returned(Leaf("Wide", h), <<>>, p)
    [] h.atom_type = T_mdat -> Returned(Leaf("Mdat", h), <<>>, p)
    [] OTHER -> Returned(Leaf("UnknownAtom", h), <<>>, p)

-----------------------------------------------------------------------------
(* Containers *)

\* ContainerAtoms::new: the type codes it decodes as a container; every
\* other gives Err(NotAContainer).
ContainerAtoms_new_matches(h) == h.atom_type = T_moov

\* The test that ends the loop of AtomHeader::parse_children after a child.
parse_children_break(parent, child) ==
  child.atom_location + child.atom_size >= parent.atom_size

\* The activation record of one MoovAtom::new: the header collected so far
\* by AtomHeader::parse_children, then the nodes AtomNodes::parse_children
\* has made of headers[1 .. idx - 1].
Frame(h) ==
  [parent |-> h, phase |-> "enumerate", headers |-> <<>>, idx |-> 1,
   nodes |-> <<>>]

\* AtomNodes::Container(ContainerAtoms::Moov(MoovAtom {atom_header, children})).
Container(h, children) ==
  [NoNode EXCEPT !.family = "Container", !.kind = "Moov", !.header = h,
                 !.children = children]

\* AtomNodes::is_container.
is_container(n) == n.family = "Container"

-----------------------------------------------------------------------------
(* Byte sources *)

\* {integer}::to_be_bytes, used to build the sources.
to_be_bytes32(n) ==
  <<(n \div 16777216) % 256, (n \div 65536) % 256, (n \div 256) % 256, n % 256>>

Atom8(size, type) == to_be_bytes32(size) \o type

Atom16(size, type) ==
  to_be_bytes32(1) \o type \o <<0, 0, 0, 0>> \o to_be_bytes32(size)

\* A type code that is not UTF-8: a continuation byte with no lead byte.
T_bad == <<110, 169, 97, 109>>

\* The payload of a file-type atom: major brand 'isom', minor version 0x200.
IsomPayload == <<105, 115, 111, 109, 0, 0, 2, 0>>

\* Whole atoms and payloads, each a multiple of 8 bytes long.
Chunks ==
  { Atom8(8, T_free), Atom8(0, T_free), Atom8(64, T_free),
    Atom8(8, T_moov), Atom8(24, T_moov), Atom8(32, T_moov),
    Atom8(16, T_ftyp), Atom8(8, T_ftyp),
    Atom8(16, T_bad),
    Atom16(16, T_free),
    IsomPayload }

\* What a source ends with: nothing, half a header, or an extended-size
\* header cut after 12 of its 16 bytes.
Tails ==
  { <<>>, to_be_bytes32(8), to_be_bytes32(1) \o T_free \o <<0, 0, 0, 0>> }

RECURSIVE Concat(_)
Concat(cs) == IF cs = <<>> THEN <<>> ELSE Head(cs) \o Concat(Tail(cs))

\* A movie container that does not start the file: two free atoms, then at
\* offset 16 a moov of 32 bytes holding two free atoms and the first 8 bytes
\* of a file-type atom that declares 64.
MoovAtOffset ==
  Concat(<<Atom8(8, T_free), Atom8(8, T_free), Atom8(32, T_moov),
           Atom8(8, T_free), Atom8(8, T_free), Atom8(64, T_ftyp)>>)

\* A well-formed movie container that does not start the file: a free atom,
\* then at offset 8 a moov of 24 bytes holding two free atoms.
MoovAfterFree ==
  Concat(<<Atom8(8, T_free), Atom8(24, T_moov), Atom8(8, T_free),
           Atom8(8, T_free)>>)

\* The brand codes 'iso2' and 'mp41'.
Iso2 == <<105, 115, 111, 50>>
Mp41 == <<109, 112, 52, 49>>

\* File-type atoms with all their bytes: size 20 with one compatible brand;
\* an extended-size header, size 32, with two; size 22, whose last two bytes
\* fill no brand.
FtypFiles ==
  { Atom8(20, T_ftyp) \o IsomPayload \o Iso2,
    Atom16(32, T_ftyp) \o IsomPayload \o Iso2 \o Mp41,
    Atom8(22, T_ftyp) \o IsomPayload \o Mp41 \o <<0, 0>> }

Files ==
  { Concat(cs) \o t :
      cs \in UNION { [1..n -> Chunks] : n \in 0..MaxChunks }, t \in Tails }
  \cup { MoovAtOffset, MoovAfterFree } \cup FtypFiles

-----------------------------------------------------------------------------
(* The state machine *)

Init ==
  /\ file \in Files
  /\ parser = "none"
  /\ pos = [file |-> 0, parser |-> 0]
  /\ active = "file"
  /\ hdr = NoHeader
  /\ stack = <<>>
  /\ reads = 0
  /\ outcome = NoOutcome
  /\ parsed = NoParseResults

Idle == stack = <<>> /\ outcome.status # "panic"

Top == stack[Len(stack)]

Outcome(op, r) ==
  [op |-> op, status |-> r.status, node |-> r.node, buf |-> r.buf,
   err |-> r.err, text |-> <<>>]

\* ParseResults::new: when a Parser::parse finishes, its caller holds what
\* AtomNodes::new came to; calls counts the parses finished so far, up to 2.
ParseResults_new(finished) ==
  parsed' = IF finished
            THEN [calls |-> Min(parsed.calls + 1, 2),
                  status |-> outcome'.status, node |-> outcome'.node,
                  err |-> outcome'.err]
            ELSE parsed

\* From<&dyn AtomLike> for AtomHeader: a header with the four values the
\* AtomLike reports.
AtomHeader_from(atom_size, atom_type, atom_location, header_size) ==
  [atom_size |-> atom_size, atom_type |-> atom_type,
   atom_location |-> atom_location, header_size |-> header_size]

\* From<&mut Parser> for AtomHeader: the header of the whole file, from
\* Parser's AtomLike implementation.
Parser_header == AtomHeader_from(Len(file), T_root, 0, 0)

\* AtomNodes::new(h, file) is entered on handle who, whose cursor is at p:
\* ContainerAtoms::new asks for the type code (a panic when it is not UTF-8),
\* MoovAtom::new seeks to the payload and starts on the children, and every
\* other type code falls through to Atoms::new.
Enter(op, who, h, p) ==
  /\ active' = who
  /\ IF ~atom_type_ok(h)
     THEN /\ outcome' = Outcome(op, Panicked(p))
          /\ pos' = [pos EXCEPT ![who] = p]
          /\ stack' = <<>>
     ELSE IF ContainerAtoms_new_matches(h)
     THEN /\ outcome' = [NoOutcome EXCEPT !.op = op, !.status = "running"]
          /\ pos' = [pos EXCEPT ![who] = h.atom_location + h.header_size]
          /\ stack' = <<Frame(h)>>
     ELSE LET r == Atoms_new(file, h, p)
          IN  /\ outcome' = Outcome(op, r)
              /\ pos' = [pos EXCEPT ![who] = r.pos]
              /\ stack' = <<>>

\* Parser::new: opens the file and checks its length.
Parser_new ==
  /\ Idle
  /\ parser = "none"
  /\ IF Len(file) > MIN_FILE_READ
     THEN /\ parser' = "open"
          /\ outcome' = [NoOutcome EXCEPT !.op = "Parser_new", !.status = "ok"]
     ELSE /\ parser' = "rejected"
          /\ outcome' = Outcome("Parser_new", Failed(NotValidMediaFileSize, 0))
  /\ reads' = 0
  /\ UNCHANGED <<file, pos, active, hdr, stack, parsed>>

\* Parser::parse without the seek to the start: the header of the file is
\* taken to begin at the cursor, and the parse leaves the cursor at the end
\* of the source.
Parser_parse_no_rewind ==
  /\ Idle
  /\ parser = "open"
  /\ Enter("Parser_parse", "parser",
           AtomHeader_from(Len(file), T_root, pos["parser"], 0), Len(file))
  /\ ParseResults_new(stack' = <<>>)
  /\ reads' = 0
  /\ UNCHANGED <<file, parser, hdr>>

\* Parser::parse: seek to the start, classify the header of the whole file.
Parser_parse ==
  /\ Idle
  /\ parser = "open"
  /\ Enter("Parser_parse", "parser", Parser_header, 0)
  /\ ParseResults_new(stack' = <<>>)
  /\ reads' = 0
  /\ UNCHANGED <<file, parser, hdr>>

\* A caller reads the next header from the handle it opened
\* (should_parse_a_header, test_container, test_read_of_ftyp).
ReadHeader ==
  /\ Idle
  /\ LET r == AtomHeader_new(file, pos["file"])
     IN  /\ hdr' = r.hdr
         /\ pos' = [pos EXCEPT !["file"] = r.pos]
         /\ outcome' = [NoOutcome EXCEPT !.op = "AtomHeader_new", !.status = "ok"]
  /\ active' = "file"
  /\ reads' = 1
  /\ UNCHANGED <<file, parser, stack, parsed>>

\* A caller reads out the atom of the header it holds (test_read_of_ftyp).
ReadAtom ==
  /\ Idle
  /\ hdr # NoHeader
  /\ LET r == AtomHeader_read_atom(file, hdr)
     IN  /\ outcome' = Outcome("read_atom", r)
         /\ pos' = [pos EXCEPT !["file"] = r.pos]
  /\ active' = "file"
  /\ reads' = 0
  /\ UNCHANGED <<file, parser, hdr, stack, parsed>>

\* A caller classifies the header it holds (test_container).
AtomNodes_new ==
  /\ Idle
  /\ hdr # NoHeader
  /\ Enter("AtomNodes_new", "file", hdr, pos["file"])
  /\ reads' = 0
  /\ UNCHANGED <<file, parser, hdr, parsed>>

\* One turn of the loop of AtomHeader::parse_children: read a child header,
\* keep it, seek to where it says it ends, and leave the loop or go round.
parse_children_step ==
  /\ stack # <<>>
  /\ Top.phase = "enumerate"
  /\ Len(Top.headers) < MaxChildren
  /\ LET r     == AtomHeader_new(file, pos[active])
         child == r.hdr
     IN  /\ pos' = [pos EXCEPT
                      ![active] = child.atom_location + child.atom_size]
         /\ stack' = [stack EXCEPT ![Len(stack)] =
              [@ EXCEPT !.headers = Append(@, child),
                        !.phase = IF parse_children_break(Top.parent, child)
                                  THEN "classify" ELSE "enumerate"]]
  /\ reads' = reads + 1
  /\ UNCHANGED <<file, parser, active, hdr, outcome, parsed>>

\* One element of the map of AtomNodes::parse_children: AtomNodes::new on the
\* next collected header.  An Ok node is kept, an Err is filtered out, a
\* nested container is entered.
classify_child ==
  /\ stack # <<>>
  /\ Top.phase = "classify"
  /\ Top.idx <= Len(Top.headers)
  /\ LET x == Top.headers[Top.idx]
     IN  IF ~atom_type_ok(x)
         THEN /\ outcome' = Outcome(outcome.op, Panicked(0))
              /\ stack' = <<>>
              /\ pos' = pos
         ELSE IF ContainerAtoms_new_matches(x)
         THEN /\ stack' = Append(stack, Frame(x))
              /\ pos' = [pos EXCEPT ![active] = x.atom_location + x.header_size]
              /\ outcome' = outcome
         ELSE LET r == Atoms_new(file, x, pos[active])
              IN  /\ pos' = [pos EXCEPT ![active] = r.pos]
                  /\ IF r.status = "panic"
                     THEN /\ outcome' = Outcome(outcome.op, r)
                          /\ stack' = <<>>
                     ELSE /\ outcome' = outcome
                          /\ stack' = [stack EXCEPT ![Len(stack)] =
                               [@ EXCEPT !.idx = @ + 1,
                                         !.nodes = IF r.status = "ok"
                                                   THEN Append(@, r.node)
                                                   ELSE @]]
  /\ ParseResults_new(outcome.op = "Parser_parse" /\ outcome'.status = "panic")
  /\ UNCHANGED <<file, parser, active, hdr, reads>>

\* MoovAtom::new returns its container once every collected header has been
\* classified: to the map of the enclosing container, or to the caller.
MoovAtom_new_return ==
  /\ stack # <<>>
  /\ Top.phase = "classify"
  /\ Top.idx > Len(Top.headers)
  /\ LET node == Container(Top.parent, Top.nodes)
         rest == SubSeq(stack, 1, Len(stack) - 1)
     IN  IF rest = <<>>
         THEN /\ stack' = <<>>
              /\ outcome' = [outcome EXCEPT !.status = "ok", !.node = node]
         ELSE /\ stack' = [rest EXCEPT ![Len(rest)] =
                   [@ EXCEPT !.idx = @ + 1, !.nodes = Append(@, node)]]
              /\ outcome' = outcome
  /\ ParseResults_new(outcome.op = "Parser_parse" /\ stack' = <<>>)
  /\ UNCHANGED <<file, parser, pos, active, hdr, reads>>

\* AtomHeader::new_from(atom): the header with the four values the node
\* reports as an AtomLike; its Display is the summary of the node's line.
AtomHeader_new_from(node) ==
  AtomHeader_from(node.header.atom_size, node.header.atom_type,
                  node.header.atom_location, node.header.header_size)

\* One line of the rendered text: width spaces, the prefix glyph (by its
\* code point), a space, the summary, a newline.  The line of an error has
\* no spaces and no glyph.
Line(width, prefix, summary) ==
  [width |-> width, prefix |-> prefix, summary |-> summary, error |-> NoError]

ErrorLine(err) ==
  [width |-> 0, prefix |-> 0, summary |-> NoHeader, error |-> err]

RECURSIVE print_tree(_, _, _)
RECURSIVE print_children(_, _, _)

\* The for loop of print_tree over atom.children(), from the child counted
\* as stuff on: each child one level deeper, the last one flagged.
print_children(children, stuff, depth) ==
  IF stuff > Len(children) THEN <<>>
  ELSE print_tree(children[stuff], depth + 1, stuff = Len(children))
         \o print_children(children, stuff + 1, depth)

\* print_tree with the indentation one space a level.
print_tree_narrow(node, depth, is_last) ==
  LET prefix == IF is_last THEN 9495 ELSE 9507
      line   == Line(depth, prefix, AtomHeader_new_from(node))
  IN  IF is_container(node)
      THEN <<line>> \o print_children(node.children, 1, depth)
      ELSE <<line>>

\* print_tree: the lines written for node and, after it, for its children.
\* The prefix is U+2517 for a last sibling and U+2523 otherwise.
print_tree(node, depth, is_last) ==
  LET prefix == IF is_last THEN 9495 ELSE 9507
      line   == Line(2 * depth, prefix, AtomHeader_new_from(node))
  IN  IF is_container(node)
      THEN <<line>> \o print_children(node.children, 1, depth)
      ELSE <<line>>

\* Display for ParseResults, on the result of the last Parser::parse or
\* AtomNodes::new: the tree from its root, or the error's line.
ParseResults_fmt ==
  /\ Idle
  /\ outcome.op \in {"Parser_parse", "AtomNodes_new"}
  /\ outcome.status \in {"ok", "err"}
  /\ outcome' = [outcome EXCEPT
                   !.op = "fmt",
                   !.text = IF outcome.status = "ok"
                            THEN print_tree(outcome.node, 0, TRUE)
                            ELSE <<ErrorLine(outcome.err)>>]
  /\ UNCHANGED <<file, parser, pos, active, hdr, stack, reads, parsed>>

Next ==
  \/ Parser_new
  \/ Parser_parse
  \/ ReadHeader
  \/ ReadAtom
  \/ AtomNodes_new
  \/ parse_children_step
  \/ classify_child
  \/ MoovAtom_new_return
  \/ ParseResults_fmt

Spec == Init /\ [][Next]_vars

\* A read or a seek of MoovAtom::new or of the loop of
\* AtomHeader::parse_children returns Err (File::seek does for an offset
\* above i64::MAX, any Read + Seek may): the `?` hands the error up through
\* MoovAtom::new and ContainerAtoms::new, and AtomNodes::new, which asks only
\* whether ContainerAtoms::new was Ok, goes on to Atoms::new with the same
\* header.
parse_children_io_error ==
  /\ stack # <<>>
  /\ Top.phase = "enumerate"
  /\ LET r    == Atoms_new(file, Top.parent, pos[active])
         rest == SubSeq(stack, 1, Len(stack) - 1)
     IN  /\ pos' = [pos EXCEPT ![active] = r.pos]
         /\ IF rest = <<>> \/ r.status = "panic"
            THEN /\ stack' = <<>>
                 /\ outcome' = Outcome(outcome.op, r)
            ELSE /\ outcome' = outcome
                 /\ stack' = [rest EXCEPT ![Len(rest)] =
                      [@ EXCEPT !.idx = @ + 1,
                                !.nodes = IF r.status = "ok"
                                          THEN Append(@, r.node) ELSE @]]
  /\ ParseResults_new(outcome.op = "Parser_parse" /\ stack' = <<>>)
  /\ UNCHANGED <<file, parser, active, hdr, reads>>

NextIO ==
  \/ Next
  \/ parse_children_io_error

\* The runs in which reads and seeks of a container decode may fail.
SpecIO == Init /\ [][NextIO]_vars

-----------------------------------------------------------------------------
(* The header codec's contract *)

\* The last header of the frame on top of the stack.
LastHeader(st) == LET t == st[Len(st)] IN t.headers[Len(t.headers)]

\* The 8 bytes at offset p are all there and their size field is not the
\* extended-size sentinel.
PlainHeaderAt(p) ==
  /\ Available(file, p) >= 8
  /\ SubSeq(file, p + 1, p + 4) # to_be_bytes32(1)

\* Header h is what the 8 bytes at p spell: re-encoding its size gives the
\* first four, its type code is the last four, it starts at p.
DecodesPlainly(p, h) ==
  /\ h.header_size = 8
  /\ to_be_bytes32(h.atom_size) = SubSeq(file, p + 1, p + 4)
  /\ h.atom_type = SubSeq(file, p + 5, p + 8)
  /\ h.atom_location = p

\* C7: whenever AtomHeader::new runs (for a caller, or for a child inside
\* a container decode) with the cursor at p on 8 bytes [u32_be(size), type],
\* size # 1, the header has header_size 8, that size, that type code
\* verbatim, and location p.
C7_HeaderRoundTrip ==
  [][ /\ ReadHeader /\ PlainHeaderAt(pos["file"])
           => DecodesPlainly(pos["file"], hdr')
      /\ parse_children_step /\ PlainHeaderAt(pos[active])
           => DecodesPlainly(pos[active], LastHeader(stack')) ]_vars

\* A caller has decoded an 8-byte header of size 64 away from offset 0.
C7_Witness ==
  /\ outcome.op = "AtomHeader_new"
  /\ hdr.atom_location > 0
  /\ hdr.header_size = 8
  /\ hdr.atom_size = 64
  /\ hdr.atom_type = T_free

\* The size field AtomHeader::new sees at the start of header h: the four
\* bytes at its location, zero where the source has ended.
SizeFieldOf(h) ==
  SubSeq(ReadInto(<<0, 0, 0, 0>>, FileRead(file, h.atom_location, 4)), 1, 4)

\* C8: a header a caller has decoded has header_size 16 exactly when its
\* size field reads 1; then its size is the big-endian value of the 8 bytes
\* that follow the type code and 16 bytes were consumed; otherwise its
\* header_size is 8.
C8_ExtendedSizeRule ==
  outcome.op = "AtomHeader_new" =>
    /\ hdr.header_size = 16 <=> SizeFieldOf(hdr) = to_be_bytes32(1)
    /\ SizeFieldOf(hdr) = to_be_bytes32(1) =>
         /\ <<0, 0, 0, 0>> \o to_be_bytes32(hdr.atom_size)
              = SubSeq(file, hdr.atom_location + 9, hdr.atom_location + 16)
         /\ pos["file"] = hdr.atom_location + 16
    /\ SizeFieldOf(hdr) # to_be_bytes32(1) => hdr.header_size = 8

-----------------------------------------------------------------------------
(* Opening a byte source *)

\* C9: Parser::new fails with the invalid-source-size error exactly when
\* the source is shorter than the 8 bytes of one header, and no header has
\* been decoded by then.
C9_RejectsOnlyShortSources ==
  outcome.op = "Parser_new" =>
    /\ (outcome.status = "err" /\ outcome.err.kind = "NotValidMediaFileSize")
         <=> Len(file) < 8
    /\ outcome.status = "ok" <=> Len(file) >= 8
    /\ reads = 0

-----------------------------------------------------------------------------
(* Reading out an atom *)

\* C10: read_atom on the header a caller holds ends with the cursor moved
\* from the atom's start and either returns exactly the atom_size bytes of
\* the source from atom_location on, or, the source giving fewer, fails with
\* FailedToReadOutAtom carrying the type code, the declared size and the
\* number of bytes read.
C10_ReadAtomContract ==
  outcome.op = "read_atom" =>
    \/ /\ outcome.status = "ok"
       /\ Len(outcome.buf) = hdr.atom_size
       /\ outcome.buf = SubSeq(file, hdr.atom_location + 1,
                               hdr.atom_location + hdr.atom_size)
       /\ pos["file"] = hdr.atom_location + hdr.atom_size
    \/ /\ outcome.status = "err"
       /\ outcome.err = FailedToReadOutAtom(hdr,
                          Available(file, hdr.atom_location))
       /\ Available(file, hdr.atom_location) < hdr.atom_size
       /\ pos["file"] = hdr.atom_location + Available(file, hdr.atom_location)

-----------------------------------------------------------------------------
(* Classification *)

KnownTypes == {T_moov, T_ftyp, T_free, T_wide, T_mdat}

\* C6: classifying a header whose type code is no known container or leaf
\* code, whatever its four bytes, succeeds with the unknown leaf that holds
\* exactly that header.
C6_UnknownTypeTolerated ==
  (outcome.op = "AtomNodes_new" /\ hdr.atom_type \notin KnownTypes) =>
    /\ outcome.status = "ok"
    /\ outcome.node = Leaf("UnknownAtom", hdr)

\* C5: decoding a moov header whose size is its header size reads no header
\* from the source and ends with a container of no children.
C5_EmptyContainer ==
  (/\ outcome.op = "AtomNodes_new"
   /\ hdr.atom_type = T_moov
   /\ hdr.atom_size = hdr.header_size) =>
    /\ reads = 0
    /\ stack = <<>> =>
         /\ outcome.status = "ok"
         /\ is_container(outcome.node)
         /\ outcome.node.children = <<>>

-----------------------------------------------------------------------------
(* Container decoding *)

End(h) == h.atom_location + h.atom_size

\* Every child of container node n ends at or before the end of n.
ChildrenWithin(n) ==
  \A i \in 1..Len(n.children) : End(n.children[i].header) <= End(n.header)

\* C1: every container that has been decoded (the one returned to the
\* caller, and every nested container already handed to the container that
\* encloses it) holds only children that end at or before its own end.
C1_ContainerBound ==
  /\ (outcome.status = "ok" /\ is_container(outcome.node))
       => ChildrenWithin(outcome.node)
  /\ \A k \in 1..Len(stack) : \A i \in 1..Len(stack[k].nodes) :
       is_container(stack[k].nodes[i]) => ChildrenWithin(stack[k].nodes[i])

\* C2: the loop of AtomHeader::parse_children reads from the cursor alone
\* (the source and the parent do not change), so it ends only if no turn
\* starts where an earlier turn of the same loop started: the child headers
\* one loop has collected begin at pairwise different offsets.
C2_EnumerationTerminates ==
  \A k \in 1..Len(stack) :
    \A i, j \in 1..Len(stack[k].headers) :
      i # j => stack[k].headers[i].atom_location
                 # stack[k].headers[j].atom_location

\* The headers met from offset p on by following each header's size to the
\* next, up to offset end (at most n of them).
RECURSIVE Chain(_, _, _)
Chain(p, end, n) ==
  IF p >= end \/ n = 0 THEN <<>>
  ELSE LET h == AtomHeader_new(file, p).hdr
       IN  <<h>> \o Chain(End(h), end, n - 1)

Headers(nodes) == [i \in 1..Len(nodes) |-> nodes[i].header]

\* Header h is an atom that lies whole between its start and offset end.
WholeAtom(h, end) ==
  /\ h.header_size \in {8, 16}
  /\ h.atom_size >= h.header_size
  /\ End(h) <= end

\* C3: a successful Parser::parse returns a container node whose header is
\* type "root", location 0, header_size 0, size the file's length, and whose
\* children are the file's top-level atoms in file order.
C3_RootOfTopLevelAtoms ==
  (outcome.op = "Parser_parse" /\ outcome.status = "ok") =>
    /\ is_container(outcome.node)
    /\ outcome.node.header = [atom_size |-> Len(file), atom_type |-> T_root,
                              atom_location |-> 0, header_size |-> 0]
    /\ LET top == Chain(0, Len(file), Len(file))
       IN  (\A i \in 1..Len(top) : WholeAtom(top[i], Len(file)))
             => Headers(outcome.node.children) = top

\* A child whose classification fails over its declared size: a file-type
\* atom that declares more bytes than the source holds.
MalformedChild(h) ==
  /\ h.atom_type = T_ftyp
  /\ h.header_size \in {8, 16}
  /\ End(h) > Len(file)

\* A well-formed leaf child of a container that ends at offset end: a whole
\* atom of the source with a UTF-8 type code and, for a file-type atom, room
\* for its two fixed fields.
WellFormedChild(h, end) ==
  /\ WholeAtom(h, end)
  /\ end <= Len(file)
  /\ atom_type_ok(h)
  /\ h.atom_type # T_moov
  /\ h.atom_type = T_ftyp => h.atom_size >= h.header_size + 8

\* C4: when the children laid out in the payload of the moov header a
\* caller classifies are well-formed leaves but for one malformed child, the
\* classification succeeds with a container whose children are those
\* well-formed siblings, all of them, in file order.
C4_SiblingResilience ==
  LET end      == End(hdr)
      layout   == Chain(hdr.atom_location + hdr.header_size, end, Len(file))
      good(h)  == WellFormedChild(h, end)
      bad(h)   == MalformedChild(h)
  IN  (/\ outcome.op = "AtomNodes_new"
       /\ stack = <<>>
       /\ hdr.atom_type = T_moov
       /\ hdr.header_size \in {8, 16}
       /\ Len(SelectSeq(layout, bad)) = 1
       /\ Len(SelectSeq(layout, good)) = Len(layout) - 1) =>
        /\ outcome.status = "ok"
        /\ is_container(outcome.node)
        /\ Headers(outcome.node.children) = SelectSeq(layout, good)

-----------------------------------------------------------------------------
(* The file-type decoder *)

\* The four bytes of the source that follow offset p.
Quad(p) == SubSeq(file, p + 1, p + 4)

\* The file-type atom of header h lies whole in the source and holds its two
\* fixed fields.
WholeFtyp(h) ==
  /\ h.atom_type = T_ftyp
  /\ h.header_size \in {8, 16}
  /\ h.atom_size >= h.header_size + 8
  /\ End(h) <= Len(file)

\* C11: classifying the header of a file-type atom whose bytes are all in
\* the source gives the Ftyp leaf whose major brand is the 4 bytes after the
\* header, whose minor version is the big-endian value of the next 4, and
\* whose compatible brands are the (size - header_size - 8) / 4 groups of 4
\* bytes that follow, in file order.
C11_FtypFields ==
  (outcome.op = "AtomNodes_new" /\ WholeFtyp(hdr)) =>
    LET n     == outcome.node
        start == hdr.atom_location + hdr.header_size
    IN  /\ outcome.status = "ok"
        /\ n.family = "Atom" /\ n.kind = "Ftyp" /\ n.header = hdr
        /\ to_be_bytes32(n.major_brand) = Quad(start)
        /\ n.minor_version = from_be_bytes(Quad(start + 4))
        /\ Len(n.compatible_brands) = (hdr.atom_size - hdr.header_size - 8) \div 4
        /\ \A i \in 1..Len(n.compatible_brands) :
             to_be_bytes32(n.compatible_brands[i]) = Quad(start + 8 + (i - 1) * 4)

\* The scenario of size 20 has been decoded: 'isom', 512, ['iso2'].
C11_Witness ==
  /\ outcome.op = "AtomNodes_new"
  /\ outcome.status = "ok"
  /\ hdr.atom_size = 20
  /\ outcome.node.kind = "Ftyp"
  /\ outcome.node.major_brand = from_be_bytes(<<105, 115, 111, 109>>)
  /\ outcome.node.minor_version = 512
  /\ outcome.node.compatible_brands = <<from_be_bytes(Iso2)>>

-----------------------------------------------------------------------------
(* Repeated parses *)

-----------------------------------------------------------------------------
(* Rendering *)

\* The paths of the tree under node n: a path is the sequence of child
\* indices that leads from n to a node.
RECURSIVE Paths(_)
Paths(n) ==
  {<<>>} \cup UNION { { <<i>> \o q : q \in Paths(n.children[i]) } :
                      i \in 1..Len(n.children) }

RECURSIVE NodeAt(_, _)
NodeAt(n, path) ==
  IF path = <<>> THEN n ELSE NodeAt(n.children[Head(path)], Tail(path))

\* Path a comes before path b in depth-first pre-order: a is a proper prefix
\* of b, or a turns to an earlier child where the two part.
Before(a, b) ==
  \/ Len(a) < Len(b) /\ SubSeq(b, 1, Len(a)) = a
  \/ \E k \in 1..Min(Len(a), Len(b)) :
       /\ SubSeq(a, 1, k - 1) = SubSeq(b, 1, k - 1)
       /\ a[k] < b[k]

\* The node at a path is the root or the last child of its parent.
LastSibling(n, path) ==
  \/ path = <<>>
  \/ path[Len(path)] =
       Len(NodeAt(n, SubSeq(path, 1, Len(path) - 1)).children)

\* C13: the text rendered for a tree has one line for each node and no
\* other; the line of a node comes after the lines of exactly the nodes
\* before it in depth-first pre-order (children in stored order); it starts
\* with 2 * depth spaces, then U+2517 if the node is the root or the last
\* child of its parent and U+2523 otherwise, then the node's summary.
C13_RenderedLines ==
  (outcome.op = "fmt" /\ outcome.status = "ok") =>
    LET root  == outcome.node
        paths == Paths(root)
        at(q) == 1 + Cardinality({ a \in paths : Before(a, q) })
    IN  /\ Len(outcome.text) = Cardinality(paths)
        /\ \A q \in paths :
             outcome.text[at(q)] =
               [width |-> 2 * Len(q),
                prefix |-> IF LastSibling(root, q) THEN 9495 ELSE 9507,
                summary |-> NodeAt(root, q).header,
                error |-> NoError]

\* A tree three levels deep with a child that is not the last has been
\* rendered.
C13_Witness ==
  /\ outcome.op = "fmt"
  /\ outcome.status = "ok"
  /\ \E i, j \in 1..Len(outcome.text) :
       /\ outcome.text[i].width = 4
       /\ outcome.text[j].prefix = 9507

-----------------------------------------------------------------------------
(* Where the enumeration of children stops *)

\* The loop that collected the child headers of frame t went on after every
\* child that ends before the parent's end and, if it has stopped, stopped
\* after a child that ends at or past it.
StopsAtParentEnd(t) ==
  /\ \A i \in 1..(Len(t.headers) - 1) : End(t.headers[i]) < End(t.parent)
  /\ (t.phase = "classify" /\ t.headers # <<>>)
       => End(t.headers[Len(t.headers)]) >= End(t.parent)

\* C14: every container decode in progress reads children up to the first
\* child that ends at or past the parent's absolute end offset and stops
\* after it; and the container returned for a well-formed moov header a
\* caller classifies, wherever the moov lies in the source, holds every
\* child laid out in its payload (there is one at least), in file order.
C14_StopsAtParentEnd ==
  /\ \A k \in 1..Len(stack) : StopsAtParentEnd(stack[k])
  /\ LET end    == End(hdr)
         layout == Chain(hdr.atom_location + hdr.header_size, end, Len(file))
     IN  (/\ outcome.op = "AtomNodes_new"
          /\ stack = <<>>
          /\ hdr.atom_type = T_moov
          /\ hdr.header_size \in {8, 16}
          /\ layout # <<>>
          /\ \A i \in 1..Len(layout) : WellFormedChild(layout[i], end)) =>
           /\ outcome.status = "ok"
           /\ is_container(outcome.node)
           /\ Len(outcome.node.children) >= Len(layout)
           /\ SubSeq(Headers(outcome.node.children), 1, Len(layout)) = layout

-----------------------------------------------------------------------------
(* Headers at the end of the source *)

\* Header h was built from header bytes that are all in the source: 8 of
\* them, or 16 when the size field reads 1.
FullHeader(h) ==
  /\ h.header_size \in {8, 16}
  /\ h.atom_location + h.header_size <= Len(file)
  /\ h.header_size = (IF SizeFieldOf(h) = to_be_bytes32(1) THEN 16 ELSE 8)

\* C15: AtomHeader::new returns a header only when the source held all of
\* the header's bytes at the cursor: every header returned to a caller or
\* collected as a child has header_size 8 or 16 and none is built from a
\* read that the end of the source cut short.
C15_ShortReadIsError ==
  /\ (outcome.op = "AtomHeader_new" /\ outcome.status = "ok")
       => FullHeader(hdr)
  /\ \A k \in 1..Len(stack) : \A i \in 1..Len(stack[k].headers) :
       FullHeader(stack[k].headers[i])

-----------------------------------------------------------------------------
(* One family for each type code *)

\* Every node of the tree under n is a container node exactly when its type
\* code is the container code moov.
FamilyByTypeCode(n) ==
  \A q \in Paths(n) :
    LET m == NodeAt(n, q)
    IN  is_container(m) <=> m.header.atom_type = T_moov

\* C16: in every tree AtomNodes::new returns, and in every node a container
\* decode in progress has made, a header of type moov is a container node
\* and never a leaf, and a header of any other type is a leaf and never a
\* container, also when reads or seeks of the decode fail.
C16_FamilyByTypeCode ==
  /\ (outcome.op \in {"AtomNodes_new", "Parser_parse"} /\ outcome.status = "ok")
       => FamilyByTypeCode(outcome.node)
  /\ \A k \in 1..Len(stack) : \A i \in 1..Len(stack[k].nodes) :
       FamilyByTypeCode(stack[k].nodes[i])

-----------------------------------------------------------------------------
(* A file-type atom too small for its fields *)

\* C17: classifying the header of a file-type atom that lies in the source
\* but declares fewer than header_size + 8 bytes, so that major brand and
\* minor version do not fit, fails with AtomParseFailed naming the type code:
\* an error value, not a panic and not a leaf.
C17_FtypTooSmallFails ==
  (/\ outcome.op = "AtomNodes_new"
   /\ hdr.atom_type = T_ftyp
   /\ hdr.header_size \in {8, 16}
   /\ hdr.atom_size < hdr.header_size + 8
   /\ End(hdr) <= Len(file)) =>
    /\ outcome.status = "err"
    /\ outcome.err = AtomParseFailed(hdr)

=============================================================================
